---- MODULE Spec2Model ----
(***************************************************************************)
(* FastTTS: the MiniMax speech-synthesis chunking and forced-alignment     *)
(* timing pipeline (tts/minimax_tts_engine.py, alignment/mfa_aligner.py,   *)
(* text_processor.py, progress_manager.py, utils/chinese_converter.py).    *)
(*                                                                         *)
(* A text is a sequence of characters.  Characters are written with ASCII  *)
(* names; each name stands for the Unicode character given below.          *)
(*   "ni" U+4F60   "hao" U+597D   "guoS" U+56FD   (Simplified ideographs)  *)
(*   "wu" U+4E94   "shi" U+5341   "bai" U+767E   "qian" U+5343             *)
(*   "guoT" U+570B                               (Traditional ideograph)   *)
(*   "juhao" U+3002 (ideographic full stop)  "douhao" U+FF0C (fullwidth ,) *)
(*   "comma" U+002C   "space" U+0020   "A" U+0041   "d5" U+0035 (digit 5)  *)
(*   "lbrk" U+3010 (left black lenticular bracket)                         *)
(***************************************************************************)
EXTENDS Integers, Sequences, FiniteSets, TLC

VARIABLES
    text,            \* the input text of the operation under way
    max_words,       \* chunk size in words (chunk_size_words / max_words)
    words,           \* _split_text_into_chunks: the stripped jieba tokens
    current_start,   \* _split_text_into_chunks: loop variable (0-based)
    chunks,          \* the chunk list built by the splitter / used by the job
    pc,              \* position of the running operation
    env,             \* the installation and the API of this run
    now,             \* time.time(), in ticks
    preprocessed_text,
    i,               \* _generate_chunked_speech: index of the chunk in work
    chunk_start_time,
    cumulative_time,
    all_audio_bytes,
    temporary_timings,
    perfect_timings,
    final_word_timings,   \* the list handed to _finalize_timings
    active_sessions,      \* progress_manager.active_sessions
    sse_sent,             \* the messages _send_sse_update has written, in order
    progress_session_id,
    api_calls,            \* the synthesis calls issued so far, as the API sees them
    last_error,           \* the exception of the failed first call of the chunk
    mfa_calls,            \* the align_chinese_audio invocations so far
    align_outcome,        \* what the aligner did in this job
    result,               \* what generate_speech gave its caller
    mfa_text,             \* the transcript written for the aligner
    estimated,            \* _estimate_word_timings: the list it returned
    restored_timings,     \* an adjusted list adjusted back by the opposite offset
    opencc,               \* ChineseConverter.cc: OpenCC is installed
    converted,            \* _finalize_timings: the converted list
    reconverted,          \* the converted list converted once more
    filtered,             \* _finalize_timings: the filtered list
    validation_result,    \* _finalize_timings: what the validation reported
    tasks,                \* the generate_speech coroutines on the event loop
    running,              \* the coroutine that holds the event loop's thread
    timers,               \* the pending _cleanup_session_later tasks
    cleanup_task,         \* progress_manager.cleanup_task
    sse_clients           \* progress_manager.sse_clients: the ids that have a list

chunkerVars == <<words, current_start>>
jobVars == <<env, now, preprocessed_text, i, chunk_start_time, cumulative_time,
             all_audio_bytes, temporary_timings, perfect_timings, final_word_timings,
             active_sessions, sse_sent, progress_session_id, api_calls, last_error,
             mfa_calls, align_outcome, result, mfa_text>>
loopVars == <<tasks, running, timers, cleanup_task, sse_clients>>
auxVars == <<estimated, restored_timings, opencc, converted, reconverted, filtered,
             validation_result, loopVars>>
vars == <<text, max_words, chunks, pc, chunkerVars, jobVars, auxVars>>

(* ------------------------------ bounds -------------------------------- *)
MaxTextLen == 5
MaxChunkWords == 2
MaxJobWords == 4
MaxTimings == 2

(* ---------------------------- characters ------------------------------ *)
\* "zhu" (U+8457) and "cha" (U+67E5) are written in both scripts
HanSimplified == {"ni", "hao", "guoS", "wu", "shi", "bai", "qian", "xianS", "zhu", "zhe", "cha"}
HanTraditional == {"guoT", "xianT"}
Whitespace == {"space"}
Latin == {"A"}
Digits == {"d5"}

\* U+4E00 <= char <= U+9FFF
IsCJK(c) == c \in HanSimplified \cup HanTraditional

Max(a, b) == IF a >= b THEN a ELSE b
Min(a, b) == IF a <= b THEN a ELSE b

\* every sequence over S of length 0..n
SeqsUpTo(S, n) == UNION {[1..k -> S] : k \in 0..n}

\* ''.join(parts)
RECURSIVE Join(_)
Join(parts) == IF parts = <<>> THEN <<>> ELSE Head(parts) \o Join(Tail(parts))

\* str.strip(): leading and trailing whitespace removed
RECURSIVE LStrip(_)
LStrip(s) == IF s # <<>> /\ Head(s) \in Whitespace THEN LStrip(Tail(s)) ELSE s
RECURSIVE RStrip(_)
RStrip(s) ==
    IF s # <<>> /\ s[Len(s)] \in Whitespace THEN RStrip(SubSeq(s, 1, Len(s) - 1)) ELSE s
Strip(s) == RStrip(LStrip(s))

\* re.sub(r'\s+', ' ', s): every run of whitespace becomes one space
RECURSIVE CollapseWhitespace(_)
CollapseWhitespace(s) ==
    IF s = <<>> THEN <<>>
    ELSE IF Head(s) \in Whitespace
         THEN <<"space">> \o CollapseWhitespace(LStrip(s))
         ELSE <<Head(s)>> \o CollapseWhitespace(Tail(s))

(* ------------------------ jieba segmentation -------------------------- *)
\* The segmenter's dictionary: the multi-character words it knows.
JiebaDict == {<<"ni", "hao">>}

\* length of the maximal run of letters and digits at the head of s
RECURSIVE AlnumRun(_)
AlnumRun(s) ==
    IF s # <<>> /\ Head(s) \in Latin \cup Digits THEN 1 + AlnumRun(Tail(s)) ELSE 0

\* jieba.cut(text, cut_all=False): a lossless segmentation of the text into
\* tokens; dictionary words and letter/digit runs are kept whole, every other
\* character (whitespace and punctuation included) is a token of its own.
RECURSIVE JiebaCut(_)
JiebaCut(s) ==
    IF s = <<>> THEN <<>>
    ELSE IF Len(s) >= 2 /\ SubSeq(s, 1, 2) \in JiebaDict
         THEN <<SubSeq(s, 1, 2)>> \o JiebaCut(SubSeq(s, 3, Len(s)))
    ELSE IF AlnumRun(s) > 0
         THEN <<SubSeq(s, 1, AlnumRun(s))>> \o JiebaCut(SubSeq(s, AlnumRun(s) + 1, Len(s)))
    ELSE <<<<Head(s)>>>> \o JiebaCut(Tail(s))

\* [word.strip() for word in jieba.cut(text, cut_all=False) if word.strip()]
RECURSIVE StripTokens(_)
StripTokens(toks) ==
    IF toks = <<>> THEN <<>>
    ELSE IF Strip(Head(toks)) # <<>>
         THEN <<Strip(Head(toks))>> \o StripTokens(Tail(toks))
         ELSE StripTokens(Tail(toks))

JiebaWords(s) == StripTokens(JiebaCut(s))

(* ----------------------------- TextChunker ---------------------------- *)
sentence_endings == {"juhao"}
clause_breaks == {"douhao", "comma"}

\* any(p in word for p in S)
ContainsAny(word, S) == \E k \in 1..Len(word) : word[k] \in S

BreakPriority(word) ==
    IF ContainsAny(word, sentence_endings) THEN 2
    ELSE IF ContainsAny(word, clause_breaks) THEN 1
    ELSE -1

\* the loop "for i in range(min_pos, max_pos)" of _find_best_break_point,
\* from index pos on (0-based, as in the code)
RECURSIVE BreakScan(_, _, _, _, _, _)
BreakScan(ws, target_length, pos, max_pos, best_pos, best_priority) ==
    IF pos >= max_pos THEN best_pos
    ELSE LET priority == BreakPriority(ws[pos + 1])
             d(x) == IF x >= target_length THEN x - target_length ELSE target_length - x
             better == \/ priority > best_priority
                       \/ priority = best_priority /\ d(pos) < d(best_pos)
         IN  IF better
             THEN BreakScan(ws, target_length, pos + 1, max_pos, pos, priority)
             ELSE BreakScan(ws, target_length, pos + 1, max_pos, best_pos, best_priority)

_find_best_break_point(ws, target_length) ==
    LET search_range == Max(5, (target_length * 2) \div 10)
        min_pos == Max(target_length - search_range, 1)
        max_pos == Min(target_length + search_range, Len(ws))
    IN  BreakScan(ws, target_length, min_pos, max_pos, target_length, -1)

\* words[a:b] with 0-based, end-exclusive Python slice indices
Slice(ws, a, b) == SubSeq(ws, a + 1, b)

\* SplitIteration with "target_end > len(words)" for "target_end >= len(words)"
SplitIterationStrict(ws, mw, cs, chs) ==
    LET target_end == cs + mw
    IN  IF target_end > Len(ws)
        THEN [chunks |-> Append(chs, Join(Slice(ws, cs, Len(ws)))),
              current_start |-> cs, broke |-> TRUE]
        ELSE LET break_point ==
                     _find_best_break_point(Slice(ws, cs, Len(ws)), Min(mw, Len(ws) - cs))
                 chunk_end == cs + break_point
             IN  [chunks |-> Append(chs, Join(Slice(ws, cs, chunk_end))),
                  current_start |-> chunk_end, broke |-> FALSE]

\* One iteration of the while loop of _split_text_into_chunks at
\* current_start = cs with the chunks built so far: the new chunks, the new
\* current_start and whether the loop was left by "break".
SplitIteration(ws, mw, cs, chs) ==
    LET target_end == cs + mw
    IN  IF target_end >= Len(ws)
        THEN [chunks |-> Append(chs, Join(Slice(ws, cs, Len(ws)))),
              current_start |-> cs, broke |-> TRUE]
        ELSE LET break_point ==
                     _find_best_break_point(Slice(ws, cs, Len(ws)), Min(mw, Len(ws) - cs))
                 chunk_end == cs + break_point
             IN  [chunks |-> Append(chs, Join(Slice(ws, cs, chunk_end))),
                  current_start |-> chunk_end, broke |-> FALSE]

(* --------------------------- text_processor --------------------------- *)
\* number_to_chinese for a number written with n digits 5 (5, 55, 555, 5555)
RECURSIVE number_to_chinese(_)
number_to_chinese(n) ==
    IF n = 1 THEN <<"wu">>
    ELSE IF n = 2 THEN <<"wu", "shi", "wu">>
    ELSE IF n = 3 THEN <<"wu", "bai">> \o number_to_chinese(2)
    ELSE <<"wu", "qian">> \o number_to_chinese(3)

\* length of the maximal run of digits at the head of s
RECURSIVE DigitRun(_)
DigitRun(s) == IF s # <<>> /\ Head(s) \in Digits THEN 1 + DigitRun(Tail(s)) ELSE 0

\* re.sub(r'(?<!\d)\d{1,4}(?!\d)', replace_number, text): a maximal digit run
\* of 1..4 digits is replaced, a longer one matches nowhere and is kept
RECURSIVE convert_numbers_to_chinese(_)
convert_numbers_to_chinese(s) ==
    IF s = <<>> THEN <<>>
    ELSE LET n == DigitRun(s)
         IN  IF n = 0 THEN <<Head(s)>> \o convert_numbers_to_chinese(Tail(s))
             ELSE (IF n <= 4 THEN number_to_chinese(n) ELSE SubSeq(s, 1, n))
                  \o convert_numbers_to_chinese(SubSeq(s, n + 1, Len(s)))

\* ChineseConverter.manual_char_mapping (Traditional -> Simplified)
\* with the entry for U+8457 (line 99) and an identity entry (line 83)
manual_char_mapping ==
    [c \in {"guoT", "xianT", "zhu", "cha"} |->
        IF c = "guoT" THEN "guoS" ELSE IF c = "xianT" THEN "xianS"
        ELSE IF c = "zhu" THEN "zhe" ELSE c]

\* ChineseConverter.convert_text: OpenCC over the text or, without it, the
\* per-character table; the two agree on every character of the texts that
\* are preprocessed here
convert_text(s) ==
    [k \in 1..Len(s) |->
        IF s[k] \in DOMAIN manual_char_mapping THEN manual_char_mapping[s[k]] ELSE s[k]]

\* the brackets, quotes, dashes and symbols sanitize_text_for_karaoke deletes
SanitizeRemoved == {"lbrk"}

sanitize_text_for_karaoke(s) ==
    IF s = <<>> THEN <<>>
    ELSE Strip(CollapseWhitespace(SelectSeq(s, LAMBDA c : c \notin SanitizeRemoved)))

preprocess_text_for_tts(s) ==
    IF s = <<>> THEN <<>>
    ELSE sanitize_text_for_karaoke(convert_text(convert_numbers_to_chinese(s)))

(* ---------------------- MFAAligner text preparation ------------------- *)
chinese_punctuation_to_keep == {"douhao", "juhao"}

\* pattern [^U+4E00-U+9FFF \s <punctuation to keep>] deleted, whitespace normalised
KeepMfaChar(c) == IsCJK(c) \/ c \in Whitespace \/ c \in chinese_punctuation_to_keep
_prepare_text_for_mfa(s) ==
    Strip(CollapseWhitespace(SelectSeq(sanitize_text_for_karaoke(s), KeepMfaChar)))

(* --------------------------- TimingEstimator -------------------------- *)
RECURSIVE SumLen(_)
SumLen(ws) == IF ws = <<>> THEN 0 ELSE Len(Head(ws)) + SumLen(Tail(ws))

\* lines 199-208; total_duration * (len(word) / total_chars) in whole
\* milliseconds
RECURSIVE EstimateLoop(_, _, _, _)
EstimateLoop(ws, total_duration, total_chars, current_time) ==
    IF ws = <<>> THEN <<>>
    ELSE LET duration == Max((total_duration * Len(Head(ws))) \div total_chars, 100)
             end_time == current_time + duration
         IN  <<[word |-> Head(ws), start_time |-> current_time, end_time |-> end_time,
                duration |-> duration, source |-> "jieba_estimation",
                confidence |-> 0, is_mfa |-> FALSE]>>
             \o EstimateLoop(Tail(ws), total_duration, total_chars, end_time)

_estimate_word_timings(txt, sentence_timings) ==
    LET ws == JiebaWords(txt)
        total_duration == IF sentence_timings # <<>> THEN sentence_timings[1].end_time
                          ELSE Len(ws) * 400
        total_chars == SumLen(ws)
    IN  IF ws = <<>> THEN <<>>
        ELSE IF total_duration <= 0 \/ total_chars = 0 THEN <<>>
        ELSE EstimateLoop(ws, total_duration, total_chars, 0)

(* ------------------------- TimingPostProcessor ------------------------ *)
\* {**t, 'start_time': .., 'end_time': .., 'offset': t.get('offset', t['start_time']) + offset}
AdjustOne(t, offset) ==
    [f \in DOMAIN t \cup {"offset"} |->
        IF f = "start_time" THEN t.start_time + offset
        ELSE IF f = "end_time" THEN t.end_time + offset
        ELSE IF f = "offset"
             THEN (IF "offset" \in DOMAIN t THEN t.offset ELSE t.start_time) + offset
        ELSE t[f]]

_adjust_timing_offsets(timings, offset) ==
    [k \in 1..Len(timings) |-> AdjustOne(timings[k], offset)]

\* ChineseConverter.ui_compatibility_mapping (whole words, highest priority)
ui_compatibility_mapping ==
    (<<"guoT", "guoT">> :> <<"guoS", "guoS">>) @@ (<<"xianT", "zhu">> :> <<"xianS", "zhe">>)

\* OpenCC('tw2s').convert
OpenCCConvert(word) ==
    [k \in 1..Len(word) |->
        IF word[k] = "guoT" THEN "guoS" ELSE IF word[k] = "xianT" THEN "xianS" ELSE word[k]]

\* ChineseConverter.convert_word with (cc = TRUE) or without OpenCC
convert_word(word, cc) ==
    IF word = <<>> THEN word
    ELSE IF word \in DOMAIN ui_compatibility_mapping THEN ui_compatibility_mapping[word]
    ELSE IF cc /\ OpenCCConvert(word) # word THEN OpenCCConvert(word)
    ELSE [k \in 1..Len(word) |->
             IF word[k] \in DOMAIN manual_char_mapping
             THEN manual_char_mapping[word[k]] ELSE word[k]]

convert_word_timings(timings, cc) ==
    [k \in 1..Len(timings) |->
        IF timings[k].word = <<>> THEN timings[k]
        ELSE [timings[k] EXCEPT !.word = convert_word(timings[k].word, cc)]]

\* validate_simplified_chinese: the characters it takes for Traditional only
exclusively_traditional_chars == {"guoT", "xianT", "cha"}

WordChars(word) == {word[k] : k \in 1..Len(word)}

\* lines 352-375: the characters of the list found in the set above
validate_simplified_chinese(word_timings) ==
    LET traditional_chars_found ==
            UNION {WordChars(word_timings[k].word) \cap exclusively_traditional_chars :
                   k \in 1..Len(word_timings)}
    IN  [is_valid |-> traditional_chars_found = {},
         traditional_chars_found |-> traditional_chars_found]

\* the enumerated punctuation, bracket and symbol set (single characters)
all_punctuation == {<<"douhao">>, <<"juhao">>, <<"comma">>, <<"lbrk">>}

\* str.isspace()
IsSpace(w) == w # <<>> /\ \A k \in 1..Len(w) : w[k] \in Whitespace

\* a filter that drops the enumerated punctuation but forgets the ideograph test
KeepTimingUnlessPunctuation(t) ==
    LET word == Strip(t.word)
    IN  word # <<>> /\ word \notin all_punctuation /\ ~IsSpace(word)

KeepTiming(t) ==
    LET word == Strip(t.word)
    IN  /\ word # <<>>
        /\ word \notin all_punctuation
        /\ ~IsSpace(word)
        /\ \E k \in 1..Len(word) : IsCJK(word[k])

\* a filter that hands out the kept words without their surrounding whitespace
FilterStrippingWords(timings) ==
    LET kept == SelectSeq(timings, KeepTiming)
    IN  [k \in 1..Len(kept) |-> [kept[k] EXCEPT !.word = Strip(@)]]

_filter_punctuation_timings(timings) == SelectSeq(timings, KeepTiming)

\* convert -> filter -> validate (the validation only logs)
_finalize_timings(timings, cc) ==
    _filter_punctuation_timings(convert_word_timings(timings, cc))

(* ------------------------- audio and its probe ------------------------ *)
\* Audio bytes are a sequence of MP3 segments, one per synthesis call; a
\* segment records the playing time of its audio in milliseconds.  b''.join
\* is the concatenation of the sequences.
RECURSIVE AudioLength(_)
AudioLength(audio) == IF audio = <<>> THEN 0 ELSE Head(audio).length + AudioLength(Tail(audio))

\* 128000 bit/s constant bitrate, as requested in audio_setting
AudioByteCount(audio) == AudioLength(audio) * 16

\* how the installation answers the probes of _get_actual_audio_duration
ProbeModes == {"mp3_ok", "mp3_missing", "ffprobe_ok", "ffprobe_nonzero", "ffprobe_raises"}

_get_actual_audio_duration(audio, probe) ==
    LET duration_ms ==
            IF probe = "mp3_ok" THEN AudioLength(audio)
            ELSE IF probe = "mp3_missing" THEN 0
            ELSE IF probe = "ffprobe_ok" THEN AudioLength(audio)
            ELSE IF probe = "ffprobe_nonzero" THEN 0
            ELSE (AudioByteCount(audio) * 1000) \div 16000
    IN  Max(duration_ms, 100)

(* ------------------------------ MFAAligner ---------------------------- *)
\* what can happen to one alignment: the tool is not installed, or
\* align_chinese_audio raises on one of its steps, or it returns timings
AlignFailures == {"not_installed", "models_missing", "ffmpeg_failed",
                  "mfa_nonzero", "mfa_timeout", "no_textgrid"}
AlignOutcomes == AlignFailures \cup {"aligned"}

\* the shapes of TextGrid the aligner writes for a transcript
TextGridVariants == {"words", "with_punct", "traditional", "silent"}

ToTraditional(word) == [k \in 1..Len(word) |-> IF word[k] = "guoS" THEN "guoT" ELSE word[k]]

\* word-tier intervals, 200 ms a token, from time t0 on
RECURSIVE WordIntervals(_, _, _)
WordIntervals(toks, t0, variant) ==
    IF toks = <<>> THEN <<>>
    ELSE LET w == Head(toks)
             spoken == \E k \in 1..Len(w) : IsCJK(w[k])
             label == IF variant = "silent" THEN <<>>
                      ELSE IF variant = "traditional" THEN (IF spoken THEN ToTraditional(w) ELSE <<>>)
                      ELSE IF variant = "with_punct" THEN w
                      ELSE (IF spoken THEN w ELSE <<>>)
         IN  <<[xmin |-> t0, xmax |-> t0 + 200, text |-> label]>>
             \o WordIntervals(Tail(toks), t0 + 200, variant)

\* The intervals the parser's regular expression finds in audio.TextGrid: a
\* leading silence, the word tier, then the phone tier (one phone a word),
\* whose times start again at the beginning of the audio.
TextGrid(transcript, variant) ==
    LET toks == JiebaWords(transcript)
        wordTier == WordIntervals(toks, 50, variant)
        phoneTier == IF variant = "silent" THEN <<>>
                     ELSE [k \in 1..Len(wordTier) |->
                              [xmin |-> wordTier[k].xmin, xmax |-> wordTier[k].xmax,
                               text |-> IF wordTier[k].text = <<>> THEN <<>> ELSE <<"A">>]]
    IN  <<[xmin |-> 0, xmax |-> 50, text |-> <<>>]>> \o wordTier \o phoneTier

\* _apply_sentence_constraints: chunk results are scaled to the expected duration
_apply_sentence_constraints(word_timings, sentence_timings, is_chunk) ==
    IF sentence_timings = <<>> \/ word_timings = <<>> THEN word_timings
    ELSE LET expected_duration == sentence_timings[1].end_time
             actual_duration == word_timings[Len(word_timings)].end_time
         IN  IF is_chunk /\ expected_duration > 0 /\ actual_duration > 0
             THEN [k \in 1..Len(word_timings) |->
                      [word_timings[k] EXCEPT
                          !.start_time = (@ * expected_duration) \div actual_duration,
                          !.end_time = (@ * expected_duration) \div actual_duration,
                          !.offset = (@ * expected_duration) \div actual_duration,
                          !.duration = (@ * expected_duration) \div actual_duration]]
             ELSE word_timings

\* lines 446-466: one entry per interval whose text is neither empty nor <SIL>
RECURSIVE ParseIntervals(_, _)
ParseIntervals(intervals, is_chunk) ==
    IF intervals = <<>> THEN <<>>
    ELSE LET iv == Head(intervals)
             rest == ParseIntervals(Tail(intervals), is_chunk)
         IN  IF Strip(iv.text) # <<>> /\ Strip(iv.text) # <<"SIL">>
             THEN <<[word |-> Strip(iv.text), start_time |-> iv.xmin, end_time |-> iv.xmax,
                     offset |-> iv.xmin, duration |-> iv.xmax - iv.xmin,
                     confidence |-> IF is_chunk THEN 95 ELSE 85,
                     source |-> IF is_chunk THEN "mfa_chunk" ELSE "mfa_full",
                     is_mfa |-> TRUE]>> \o rest
             ELSE rest

_parse_mfa_output(intervals, sentence_timings, is_chunk) ==
    LET word_timings == ParseIntervals(intervals, is_chunk)
    IN  IF sentence_timings # <<>>
        THEN _apply_sentence_constraints(word_timings, sentence_timings, is_chunk)
        ELSE word_timings

\* align_chinese_audio(audio_bytes, text, sentence_timings) with is_chunk left
\* at its default: raises, or returns the parsed timings
align_chinese_audio(audio, txt, sentence_timings, outcome, variant) ==
    IF outcome # "aligned" THEN [raised |-> TRUE, timings |-> <<>>]
    ELSE [raised |-> FALSE,
          timings |-> _parse_mfa_output(TextGrid(_prepare_text_for_mfa(txt), variant),
                                        sentence_timings, FALSE)]

\* _extract_word_timings: MFA, else the estimate; never raises
_extract_word_timings(audio, txt, sentence_timings, outcome, variant) ==
    IF outcome = "not_installed"
    THEN [raised |-> FALSE, timings |-> _estimate_word_timings(txt, sentence_timings)]
    ELSE LET r == align_chinese_audio(audio, txt, sentence_timings, outcome, variant)
         IN  IF r.raised
             THEN [raised |-> FALSE, timings |-> _estimate_word_timings(txt, sentence_timings)]
             ELSE r

\* a final pass without its try/except: the aligner's exception leaves it
_run_final_mfa_pass_unguarded(audio, text_chunks, probe, outcome, variant) ==
    IF audio = <<>> THEN [raised |-> FALSE, timings |-> <<>>]
    ELSE IF outcome = "not_installed" THEN [raised |-> FALSE, timings |-> <<>>]
    ELSE LET full_text == Join(text_chunks)
             duration == _get_actual_audio_duration(audio, probe)
             sentence_timing == <<[text |-> full_text, start_time |-> 0, end_time |-> duration]>>
         IN  align_chinese_audio(audio, full_text, sentence_timing, outcome, variant)

\* _run_final_mfa_pass: MFA over the combined audio, else []; never raises
_run_final_mfa_pass(audio, text_chunks, probe, outcome, variant) ==
    IF audio = <<>> THEN [raised |-> FALSE, timings |-> <<>>]
    ELSE IF outcome = "not_installed" THEN [raised |-> FALSE, timings |-> <<>>]
    ELSE LET full_text == Join(text_chunks)
             duration == _get_actual_audio_duration(audio, probe)
             sentence_timing == <<[text |-> full_text, start_time |-> 0, end_time |-> duration]>>
             r == align_chinese_audio(audio, full_text, sentence_timing, outcome, variant)
         IN  IF r.raised THEN [raised |-> FALSE, timings |-> <<>>] ELSE r

\* a selection that keeps the estimates next to the alignment result
SelectTimingsMerged(perfect, temporary) ==
    IF \E k \in 1..Len(perfect) : perfect[k].is_mfa THEN perfect \o temporary ELSE temporary

\* line 396
SelectTimings(perfect, temporary) ==
    IF \E k \in 1..Len(perfect) : perfect[k].is_mfa THEN perfect ELSE temporary

(* --------------------------- progress_manager ------------------------- *)
SessionIds == {"s1"}

create_session(sessions, sid, total_chunks, t) ==
    [s \in DOMAIN sessions \cup {sid} |->
        IF s = sid
        THEN [total_chunks |-> total_chunks, current_chunk |-> 0, status |-> "starting",
              message |-> "Initializing TTS generation...", percentage |-> 0,
              start_time |-> t, last_update |-> t, error |-> "None"]
        ELSE sessions[s]]

\* update_progress that leaves the status as it is
update_progress_keeping_status(sessions, sid, current_chunk, message, t) ==
    IF sid \notin DOMAIN sessions THEN sessions
    ELSE [sessions EXCEPT ![sid] =
            [@ EXCEPT !.current_chunk = current_chunk,
                      !.last_update = t,
                      !.percentage = IF sessions[sid].total_chunks > 0
                                     THEN (current_chunk * 100) \div sessions[sid].total_chunks
                                     ELSE @,
                      !.message = message]]

\* update_progress that takes the chunk number for the fraction done
update_progress_unscaled(sessions, sid, current_chunk, message, t) ==
    IF sid \notin DOMAIN sessions THEN sessions
    ELSE [sessions EXCEPT ![sid] =
            [@ EXCEPT !.current_chunk = current_chunk,
                      !.status = "processing",
                      !.last_update = t,
                      !.percentage = IF sessions[sid].total_chunks > 0
                                     THEN current_chunk * 100
                                     ELSE @,
                      !.message = message]]

update_progress(sessions, sid, current_chunk, message, t) ==
    IF sid \notin DOMAIN sessions THEN sessions
    ELSE [sessions EXCEPT ![sid] =
            [@ EXCEPT !.current_chunk = current_chunk,
                      !.status = "processing",
                      !.last_update = t,
                      !.percentage = IF sessions[sid].total_chunks > 0
                                     THEN (current_chunk * 100) \div sessions[sid].total_chunks
                                     ELSE @,
                      !.message = message]]

set_error(sessions, sid, error_message, t) ==
    IF sid \notin DOMAIN sessions THEN sessions
    ELSE [sessions EXCEPT ![sid] =
            [@ EXCEPT !.status = "error", !.error = error_message,
                      !.message = "Error", !.last_update = t]]

complete_session(sessions, sid, t) ==
    IF sid \notin DOMAIN sessions THEN sessions
    ELSE [sessions EXCEPT ![sid] =
            [@ EXCEPT !.status = "completed", !.percentage = 100,
                      !.message = "TTS generation completed successfully!",
                      !.last_update = t]]

\* event_data of _send_sse_update for the session as it stands after a write
SseEvent(sessions, sid) ==
    [type |-> "progress_update", session_id |-> sid,
     current_chunk |-> sessions[sid].current_chunk,
     total_chunks |-> sessions[sid].total_chunks,
     percentage |-> sessions[sid].percentage, status |-> sessions[sid].status,
     message |-> sessions[sid].message, timestamp |-> sessions[sid].last_update]

(* ------------------------- MinimaxTTSEngine --------------------------- *)
RECURSIVE SplitRun(_, _, _, _)
SplitRun(ws, mw, cs, chs) ==
    IF cs < Len(ws)
    THEN LET r == SplitIteration(ws, mw, cs, chs)
         IN  IF r.broke THEN r.chunks ELSE SplitRun(ws, mw, r.current_start, r.chunks)
    ELSE chs

_split_text_into_chunks(txt, mw) ==
    LET ws == JiebaWords(txt)
    IN  IF ws = <<>> THEN <<txt>> ELSE SplitRun(ws, mw, 0, <<>>)

max_requests_per_minute == 58

\* The clock counts ticks of 1/290 s, so that 60 / max_requests_per_minute
\* seconds, the 0.1 s burst delay and the 20 s cooldown are whole numbers.
TicksPerSecond == 5 * max_requests_per_minute
RequiredDelay == (60 * TicksPerSecond) \div max_requests_per_minute
BurstDelay == TicksPerSecond \div 10
Cooldown == 20 * TicksPerSecond

\* how long the synthesis API takes to answer: 0.2 s or 2 s
ApiLatencies == {TicksPerSecond \div 5, 2 * TicksPerSecond}
\* the playing time of the audio the API returns for a chunk, in ms
AudioLengths == {150, 600}

\* What a run does not control: which duration probe the installation has,
\* how fast the API answers, how long the audio of a chunk plays and whether
\* the API reports extra_info.audio_length.
Environments ==
    [probe : ProbeModes, latency : ApiLatencies, audio_length : AudioLengths,
     reports_length : BOOLEAN]
\* the exceptions _call_minimax_api raises
ApiErrors == {"http_429", "http_500", "no_audio"}
\* "429" in str(e)
Has429(e) == e = "http_429"

\* the delay _handle_rate_limit sleeps at time t
_handle_rate_limit(chunk_index, total_chunks, start_time, t) ==
    IF chunk_index = 0 THEN 0
    ELSE IF total_chunks <= 3 THEN BurstDelay
    ELSE Max(0, RequiredDelay - (t - start_time))

RECURSIVE Rep(_, _)
Rep(unit, k) == IF k = 0 THEN <<>> ELSE unit \o Rep(unit, k - 1)

JobTexts == {Rep(<<"ni">>, k) : k \in 1..MaxJobWords}
            \cup {<<"ni", "hao", "douhao", "A", "guoT">>, <<"lbrk">>}

NoResult == [status |-> "pending", audio |-> <<>>, timings |-> <<>>]

NoValidation == [is_valid |-> TRUE, traditional_chars_found |-> {}]

\* no request has arrived and the cleanup loop has not been started
NoCleanupTask == [started |-> FALSE, wake |-> 0]

LoopIdle ==
    /\ tasks = <<>>
    /\ running = "None"
    /\ timers = {}
    /\ cleanup_task = NoCleanupTask
    /\ sse_clients = {}

\* nothing has been estimated, converted, filtered or validated
AuxIdle ==
    /\ LoopIdle
    /\ estimated = <<>>
    /\ restored_timings = <<>>
    /\ opencc = FALSE
    /\ converted = <<>>
    /\ reconverted = <<>>
    /\ filtered = <<>>
    /\ validation_result = NoValidation

JobIdle ==
    /\ env = [probe |-> "mp3_ok", latency |-> 0, audio_length |-> 0,
              reports_length |-> TRUE]
    /\ now = 0
    /\ preprocessed_text = <<>>
    /\ i = 0
    /\ chunk_start_time = 0
    /\ cumulative_time = 0
    /\ all_audio_bytes = <<>>
    /\ temporary_timings = <<>>
    /\ perfect_timings = <<>>
    /\ final_word_timings = <<>>
    /\ active_sessions = <<>>
    /\ sse_sent = <<>>
    /\ progress_session_id = "None"
    /\ api_calls = <<>>
    /\ last_error = "None"
    /\ mfa_calls = <<>>
    /\ align_outcome = "None"
    /\ result = NoResult
    /\ mfa_text = <<>>
    /\ AuxIdle

Init ==
    /\ text \in JobTexts
    /\ max_words \in 1..MaxChunkWords
    /\ words = <<>>
    /\ current_start = 0
    /\ chunks = <<>>
    /\ pc = "start"
    /\ env \in Environments
    /\ now = 0
    /\ preprocessed_text = <<>>
    /\ i = 0
    /\ chunk_start_time = 0
    /\ cumulative_time = 0
    /\ all_audio_bytes = <<>>
    /\ temporary_timings = <<>>
    /\ perfect_timings = <<>>
    /\ final_word_timings = <<>>
    /\ active_sessions = <<>>
    /\ sse_sent = <<>>
    /\ progress_session_id = "None"
    /\ api_calls = <<>>
    /\ last_error = "None"
    /\ mfa_calls = <<>>
    /\ align_outcome = "None"
    /\ result = NoResult
    /\ mfa_text = <<>>
    /\ AuxIdle

Raise == pc' = "raised" /\ result' = [status |-> "raised", audio |-> <<>>, timings |-> <<>>]

\* generate_speech, lines 110-129, with the engine configured and the voice known
GenerateSpeech ==
    /\ pc = "start"
    /\ LET pre == preprocess_text_for_tts(text)
           chs == _split_text_into_chunks(pre, max_words)
       IN  /\ preprocessed_text' = pre
           /\ IF pre = <<>>
              THEN /\ Raise
                   /\ UNCHANGED <<chunks, active_sessions, sse_sent, progress_session_id>>
              ELSE /\ chunks' = chs
                   /\ result' = result
                   /\ IF Len(chs) = 1
                      THEN /\ pc' = "single_call"
                           /\ UNCHANGED <<active_sessions, sse_sent, progress_session_id>>
                      ELSE /\ pc' = "chunk_begin"
                           /\ \E sid \in SessionIds \ DOMAIN active_sessions :
                                /\ progress_session_id' = sid
                                /\ active_sessions' =
                                       create_session(active_sessions, sid, Len(chs), now)
                                /\ sse_sent' = sse_sent
    /\ UNCHANGED <<auxVars, mfa_text, text, max_words, chunkerVars, env, now, i, chunk_start_time,
                   cumulative_time, all_audio_bytes, temporary_timings, perfect_timings,
                   final_word_timings, api_calls, last_error, mfa_calls, align_outcome>>

\* generate_speech raises before any synthesis: credentials missing or voice unsupported
GenerateSpeechRejected ==
    /\ pc = "start"
    /\ Raise
    /\ UNCHANGED <<auxVars, mfa_text, text, max_words, chunks, chunkerVars, env, now, preprocessed_text, i,
                   chunk_start_time, cumulative_time, all_audio_bytes, temporary_timings,
                   perfect_timings, final_word_timings, active_sessions, sse_sent,
                   progress_session_id, api_calls, last_error, mfa_calls, align_outcome>>

SentenceTimings(txt, audio_length_ms) ==
    IF audio_length_ms > 0
    THEN <<[text |-> txt, start_time |-> 0, end_time |-> audio_length_ms]>>
    ELSE <<>>

(* single-chunk path: _generate_single_chunk *)
\* line 289: the synthesis call; any exception leaves generate_speech
SingleCall ==
    /\ pc = "single_call"
    /\ LET latency == env.latency IN
         /\ now' = now + latency
         /\ \/ \E e \in ApiErrors :
                 /\ api_calls' = Append(api_calls,
                        [chunk |-> 0, at |-> now, retry |-> FALSE, outcome |-> e])
                 /\ Raise
                 /\ UNCHANGED <<all_audio_bytes, temporary_timings>>
            \/ LET len == env.audio_length
                   reported == IF env.reports_length THEN len ELSE 0 IN
                 /\ api_calls' = Append(api_calls,
                        [chunk |-> 0, at |-> now, retry |-> FALSE, outcome |-> "ok"])
                 /\ all_audio_bytes' = <<<<[chunk |-> 0, length |-> len]>>>>
                 /\ temporary_timings' = SentenceTimings(preprocessed_text, reported)
                 /\ pc' = "single_align"
                 /\ result' = result
    /\ UNCHANGED <<auxVars, mfa_text, text, max_words, chunks, chunkerVars, env, preprocessed_text, i,
                   chunk_start_time, cumulative_time, perfect_timings, final_word_timings,
                   active_sessions, sse_sent, progress_session_id, last_error, mfa_calls,
                   align_outcome>>

\* line 290: _extract_word_timings
SingleAlign ==
    /\ pc = "single_align"
    /\ \E outcome \in AlignOutcomes, variant \in TextGridVariants :
         LET audio == Join(all_audio_bytes)
             r == _extract_word_timings(audio, preprocessed_text, temporary_timings,
                                        outcome, variant)
         IN  /\ align_outcome' = outcome
             /\ mfa_calls' = IF outcome = "not_installed" THEN mfa_calls
                             ELSE Append(mfa_calls, [text |-> preprocessed_text,
                                                     audio |-> audio])
             /\ final_word_timings' = r.timings
             /\ IF r.raised THEN Raise ELSE pc' = "single_finalize" /\ result' = result
    /\ UNCHANGED <<auxVars, mfa_text, text, max_words, chunks, chunkerVars, env, now, preprocessed_text, i,
                   chunk_start_time, cumulative_time, all_audio_bytes, temporary_timings,
                   perfect_timings, active_sessions, sse_sent, progress_session_id, api_calls,
                   last_error>>

\* lines 291-292
SingleFinalize ==
    /\ pc = "single_finalize"
    /\ pc' = "returned"
    /\ \E cc \in BOOLEAN :
         result' = [status |-> "returned", audio |-> Join(all_audio_bytes),
                    timings |-> _finalize_timings(final_word_timings, cc)]
    /\ UNCHANGED <<auxVars, mfa_text, text, max_words, chunks, chunkerVars, env, now, preprocessed_text, i,
                   chunk_start_time, cumulative_time, all_audio_bytes, temporary_timings,
                   perfect_timings, final_word_timings, active_sessions, sse_sent,
                   progress_session_id, api_calls, last_error, mfa_calls, align_outcome>>

(* multi-chunk path: _generate_chunked_speech *)
\* lines 369-371: publish the chunk, wait for the rate limit, take the time
ChunkBegin ==
    /\ pc = "chunk_begin"
    /\ LET delay == _handle_rate_limit(i, Len(chunks), chunk_start_time, now)
       IN  /\ active_sessions' = update_progress(active_sessions, progress_session_id,
                                                 i + 1, "Processing chunk", now)
           /\ now' = now + delay
           /\ chunk_start_time' = now + delay
           /\ sse_sent' = Append(sse_sent, SseEvent(active_sessions', progress_session_id))
    /\ pc' = "chunk_call"
    /\ UNCHANGED <<auxVars, mfa_text, text, max_words, chunks, chunkerVars, env, preprocessed_text, i,
                   cumulative_time, all_audio_bytes, temporary_timings, perfect_timings,
                   final_word_timings, progress_session_id, api_calls, last_error,
                   mfa_calls, align_outcome, result>>

\* a chunk whose audio is put in front of the audio collected so far
ChunkDonePrepended(len, reported) ==
    LET audio == <<[chunk |-> i, length |-> len]>>
        timings == SentenceTimings(chunks[i + 1], reported)
        estimated_timings == _estimate_word_timings(chunks[i + 1], timings)
    IN  /\ all_audio_bytes' = <<audio>> \o all_audio_bytes
        /\ temporary_timings' = temporary_timings \o
                                _adjust_timing_offsets(estimated_timings, cumulative_time)
        /\ cumulative_time' = cumulative_time + _get_actual_audio_duration(audio, env.probe)
        /\ i' = i + 1
        /\ pc' = IF i + 1 < Len(chunks) THEN "chunk_begin" ELSE "combine"

\* a chunk whose offset grows by the length the API reported, not the measured one
ChunkDoneByReported(len, reported) ==
    LET audio == <<[chunk |-> i, length |-> len]>>
        timings == SentenceTimings(chunks[i + 1], reported)
        estimated_timings == _estimate_word_timings(chunks[i + 1], timings)
    IN  /\ all_audio_bytes' = Append(all_audio_bytes, audio)
        /\ temporary_timings' = temporary_timings \o
                                _adjust_timing_offsets(estimated_timings, cumulative_time)
        /\ cumulative_time' = cumulative_time + reported
        /\ i' = i + 1
        /\ pc' = IF i + 1 < Len(chunks) THEN "chunk_begin" ELSE "combine"

\* lines 374-378 and 382-386: the chunk's audio and estimate are taken in
ChunkDone(len, reported) ==
    LET audio == <<[chunk |-> i, length |-> len]>>
        timings == SentenceTimings(chunks[i + 1], reported)
        estimated_timings == _estimate_word_timings(chunks[i + 1], timings)
    IN  /\ all_audio_bytes' = Append(all_audio_bytes, audio)
        /\ temporary_timings' = temporary_timings \o
                                _adjust_timing_offsets(estimated_timings, cumulative_time)
        /\ cumulative_time' = cumulative_time + _get_actual_audio_duration(audio, env.probe)
        /\ i' = i + 1
        /\ pc' = IF i + 1 < Len(chunks) THEN "chunk_begin" ELSE "combine"

\* lines 373-380, 387-389: the chunk's first synthesis call
ChunkCall ==
    /\ pc = "chunk_call"
    /\ LET latency == env.latency IN
         /\ now' = now + latency
         /\ \/ \E e \in ApiErrors :
                 /\ api_calls' = Append(api_calls,
                        [chunk |-> i, at |-> now, retry |-> FALSE, outcome |-> e])
                 /\ last_error' = e
                 /\ IF Has429(e)
                    THEN /\ pc' = "cooldown"
                         /\ UNCHANGED <<active_sessions, sse_sent, result>>
                    ELSE /\ active_sessions' = set_error(active_sessions,
                                progress_session_id, "Chunk failed", now + latency)
                         /\ sse_sent' = Append(sse_sent, SseEvent(active_sessions', progress_session_id))
                         /\ Raise
                 /\ UNCHANGED <<i, cumulative_time, all_audio_bytes, temporary_timings>>
            \/ LET len == env.audio_length
                   reported == IF env.reports_length THEN len ELSE 0 IN
                 /\ api_calls' = Append(api_calls,
                        [chunk |-> i, at |-> now, retry |-> FALSE, outcome |-> "ok"])
                 /\ ChunkDone(len, reported)
                 /\ UNCHANGED <<active_sessions, sse_sent, result, last_error>>
    /\ UNCHANGED <<auxVars, mfa_text, text, max_words, chunks, chunkerVars, env, preprocessed_text,
                   chunk_start_time, perfect_timings, final_word_timings,
                   progress_session_id, mfa_calls, align_outcome>>

\* a retry that, on a further 429, cools down and calls again
ChunkRetryAgain ==
    /\ pc = "cooldown"
    /\ LET latency == env.latency IN
         /\ now' = now + Cooldown + latency
         /\ \/ \E e \in ApiErrors :
                 /\ api_calls' = Append(api_calls,
                        [chunk |-> i, at |-> now + Cooldown, retry |-> TRUE, outcome |-> e])
                 /\ IF Has429(e) THEN pc' = "cooldown" /\ result' = result ELSE Raise
                 /\ UNCHANGED <<i, cumulative_time, all_audio_bytes, temporary_timings>>
            \/ LET len == env.audio_length
                   reported == IF env.reports_length THEN len ELSE 0 IN
                 /\ api_calls' = Append(api_calls,
                        [chunk |-> i, at |-> now + Cooldown, retry |-> TRUE, outcome |-> "ok"])
                 /\ ChunkDone(len, reported)
                 /\ result' = result
    /\ UNCHANGED <<auxVars, mfa_text, text, max_words, chunks, chunkerVars, env, preprocessed_text,
                   chunk_start_time, perfect_timings, final_word_timings, active_sessions, sse_sent,
                   progress_session_id, last_error, mfa_calls, align_outcome>>

\* lines 381-386: sleep 20 s, call again; an exception here leaves the handler
ChunkRetry ==
    /\ pc = "cooldown"
    /\ LET latency == env.latency IN
         /\ now' = now + Cooldown + latency
         /\ \/ \E e \in ApiErrors :
                 /\ api_calls' = Append(api_calls,
                        [chunk |-> i, at |-> now + Cooldown, retry |-> TRUE, outcome |-> e])
                 /\ Raise
                 /\ UNCHANGED <<i, cumulative_time, all_audio_bytes, temporary_timings>>
            \/ LET len == env.audio_length
                   reported == IF env.reports_length THEN len ELSE 0 IN
                 /\ api_calls' = Append(api_calls,
                        [chunk |-> i, at |-> now + Cooldown, retry |-> TRUE, outcome |-> "ok"])
                 /\ ChunkDone(len, reported)
                 /\ result' = result
    /\ UNCHANGED <<auxVars, mfa_text, text, max_words, chunks, chunkerVars, env, preprocessed_text,
                   chunk_start_time, perfect_timings, final_word_timings, active_sessions, sse_sent,
                   progress_session_id, last_error, mfa_calls, align_outcome>>

\* the audio is combined without the announcement of the final alignment
CombineAudioSilent ==
    /\ pc = "combine"
    /\ pc' = "final_mfa"
    /\ UNCHANGED <<auxVars, mfa_text, text, max_words, chunks, chunkerVars, env, now, preprocessed_text, i,
                   chunk_start_time, cumulative_time, all_audio_bytes, temporary_timings,
                   perfect_timings, final_word_timings, active_sessions, sse_sent,
                   progress_session_id, api_calls, last_error, mfa_calls, align_outcome, result>>

\* lines 391-393
CombineAudio ==
    /\ pc = "combine"
    /\ active_sessions' = update_progress(active_sessions, progress_session_id,
                                          Len(chunks), "Running final alignment...", now)
    /\ sse_sent' = Append(sse_sent, SseEvent(active_sessions', progress_session_id))
    /\ pc' = "final_mfa"
    /\ UNCHANGED <<auxVars, mfa_text, text, max_words, chunks, chunkerVars, env, now, preprocessed_text, i,
                   chunk_start_time, cumulative_time, all_audio_bytes, temporary_timings,
                   perfect_timings, final_word_timings, progress_session_id, api_calls,
                   last_error, mfa_calls, align_outcome, result>>

\* a final pass that also aligns every chunk on its own
RunFinalMfaPassPerChunk ==
    /\ pc = "final_mfa"
    /\ \E outcome \in AlignOutcomes, variant \in TextGridVariants :
         LET combined_audio == Join(all_audio_bytes)
             r == _run_final_mfa_pass(combined_audio, chunks, env.probe, outcome, variant)
         IN  /\ align_outcome' = outcome
             /\ mfa_calls' = IF outcome = "not_installed" THEN mfa_calls
                             ELSE [k \in 1..Len(chunks) |->
                                      [text |-> chunks[k], audio |-> all_audio_bytes[k]]]
                                  \o <<[text |-> Join(chunks), audio |-> combined_audio]>>
             /\ perfect_timings' = r.timings
             /\ IF r.raised THEN Raise ELSE pc' = "select" /\ result' = result
    /\ UNCHANGED <<auxVars, mfa_text, text, max_words, chunks, chunkerVars, env, now, preprocessed_text, i,
                   chunk_start_time, cumulative_time, all_audio_bytes, temporary_timings,
                   final_word_timings, active_sessions, sse_sent, progress_session_id, api_calls,
                   last_error>>

\* line 394
RunFinalMfaPass ==
    /\ pc = "final_mfa"
    /\ \E outcome \in AlignOutcomes, variant \in TextGridVariants :
         LET combined_audio == Join(all_audio_bytes)
             r == _run_final_mfa_pass(combined_audio, chunks, env.probe, outcome, variant)
         IN  /\ align_outcome' = outcome
             /\ mfa_calls' = IF outcome = "not_installed" THEN mfa_calls
                             ELSE Append(mfa_calls, [text |-> Join(chunks),
                                                     audio |-> combined_audio])
             /\ perfect_timings' = r.timings
             /\ IF r.raised THEN Raise ELSE pc' = "select" /\ result' = result
    /\ UNCHANGED <<auxVars, mfa_text, text, max_words, chunks, chunkerVars, env, now, preprocessed_text, i,
                   chunk_start_time, cumulative_time, all_audio_bytes, temporary_timings,
                   final_word_timings, active_sessions, sse_sent, progress_session_id, api_calls,
                   last_error>>

\* lines 396-401
SelectAndFinalize ==
    /\ pc = "select"
    /\ final_word_timings' = SelectTimings(perfect_timings, temporary_timings)
    /\ \E cc \in BOOLEAN :
         result' = [status |-> "returned", audio |-> Join(all_audio_bytes),
                    timings |-> _finalize_timings(
                                    SelectTimings(perfect_timings, temporary_timings), cc)]
    /\ active_sessions' = complete_session(active_sessions, progress_session_id, now)
    /\ sse_sent' = Append(sse_sent, SseEvent(active_sessions', progress_session_id))
    /\ pc' = "returned"
    /\ UNCHANGED <<auxVars, mfa_text, text, max_words, chunks, chunkerVars, env, now, preprocessed_text, i,
                   chunk_start_time, cumulative_time, all_audio_bytes, temporary_timings,
                   perfect_timings, progress_session_id, api_calls, last_error, mfa_calls,
                   align_outcome>>

Next ==
    \/ GenerateSpeech
    \/ GenerateSpeechRejected
    \/ SingleCall
    \/ SingleAlign
    \/ SingleFinalize
    \/ ChunkBegin
    \/ ChunkCall
    \/ ChunkRetry
    \/ CombineAudio
    \/ RunFinalMfaPass
    \/ SelectAndFinalize

Spec == Init /\ [][Next]_vars

(* ----------------- the splitter as a state machine -------------------- *)
ChunkerAlphabet == {"ni", "hao", "douhao", "juhao", "space"}

InitChunker ==
    /\ text \in SeqsUpTo(ChunkerAlphabet, MaxTextLen)
    /\ max_words \in 1..MaxChunkWords
    /\ words = <<>>
    /\ current_start = 0
    /\ chunks = <<>>
    /\ pc = "split_start"
    /\ JobIdle

\* lines 268-271: segment; "if not words: return [text]"
SplitStart ==
    /\ pc = "split_start"
    /\ words' = JiebaWords(text)
    /\ current_start' = 0
    /\ IF JiebaWords(text) = <<>>
       THEN chunks' = <<text>> /\ pc' = "split_done"
       ELSE chunks' = <<>> /\ pc' = "split_loop"
    /\ UNCHANGED <<text, max_words, jobVars, auxVars>>

\* lines 272-281: one pass through the while loop. A run whose passes each
\* consume a word never has more chunks than words; a run that has is cut off.
SplitLoop ==
    /\ pc = "split_loop"
    /\ Len(chunks) <= Len(words)
    /\ IF current_start < Len(words)
       THEN LET r == SplitIteration(words, max_words, current_start, chunks)
            IN  /\ chunks' = r.chunks
                /\ current_start' = r.current_start
                /\ pc' = IF r.broke THEN "split_done" ELSE "split_loop"
       ELSE /\ pc' = "split_done"
            /\ UNCHANGED <<chunks, current_start>>
    /\ UNCHANGED <<text, max_words, words, jobVars, auxVars>>

NextChunker == SplitStart \/ SplitLoop

SpecChunker == InitChunker /\ [][NextChunker]_vars

(* ------------- the splitter on long texts and other chunk sizes ------------- *)
\* the number of words of the longest text
ScenarioWords == 130
\* def _split_text_into_chunks(self, text, max_words: int = 120)
ScenarioMaxWords == 120
\* the word counts and chunk sizes tried: the default size with a text just
\* above and one just filling it, sizes whose search range is 20% of the size
\* (30) and the 5-word minimum (7, 2), and the size 0
SplitCases ==
    {[n |-> ScenarioWords, mw |-> ScenarioMaxWords], [n |-> ScenarioMaxWords, mw |-> ScenarioMaxWords],
     [n |-> 40, mw |-> 30], [n |-> 14, mw |-> 7], [n |-> 6, mw |-> 2], [n |-> 3, mw |-> 0]}
\* what stands at a marked place: a plain word, a clause break, a sentence end
MarkKinds == {"ni", "douhao", "juhao"}

\* a text of n one-character words with the tokens k1 and k2 at the places p1 and p2
TextWithMarks(n, p1, k1, p2, k2) ==
    [k \in 1..n |-> IF k = p1 THEN k1 ELSE IF k = p2 THEN k2 ELSE "ni"]

\* the places that get a mark: the head of the text, and every place from just
\* below the search window of the first break point to the end of the text
MarkPlaces(c) ==
    {1, 2} \cup {p \in 1..c.n : p >= c.mw - Max(5, (c.mw * 2) \div 10) - 1}

InitSplit ==
    /\ \E c \in SplitCases : \E p1 \in MarkPlaces(c) : \E p2 \in MarkPlaces(c) :
          \E k1 \in MarkKinds : \E k2 \in MarkKinds :
             /\ text = TextWithMarks(c.n, p1, k1, p2, k2)
             /\ max_words = c.mw
    /\ words = <<>>
    /\ current_start = 0
    /\ chunks = <<>>
    /\ pc = "split_start"
    /\ JobIdle

SpecSplit == InitSplit /\ [][NextChunker]_vars

(* --------- the aligner's transcript as a state machine ---------------- *)
TextAlphabet == {"ni", "guoT", "douhao", "comma", "A", "d5", "space", "lbrk"}

InitText ==
    /\ text \in SeqsUpTo(TextAlphabet, MaxTextLen - 1)
    /\ max_words = 1
    /\ words = <<>>
    /\ current_start = 0
    /\ chunks = <<>>
    /\ pc = "raw"
    /\ JobIdle

\* generate_speech line 118: the text shown to the user
Preprocess ==
    /\ pc = "raw"
    /\ preprocessed_text' = preprocess_text_for_tts(text)
    /\ pc' = "preprocessed"
    /\ UNCHANGED <<text, max_words, chunks, chunkerVars, env, now, i, chunk_start_time,
                   cumulative_time, all_audio_bytes, temporary_timings, perfect_timings,
                   final_word_timings, active_sessions, sse_sent, progress_session_id,
                   api_calls, last_error, mfa_calls, align_outcome, result, mfa_text, auxVars>>

\* _prepare_mfa_inputs line 227: the transcript handed to the aligner
PrepareTextForMfa ==
    /\ pc = "preprocessed"
    /\ mfa_text' = _prepare_text_for_mfa(preprocessed_text)
    /\ pc' = "prepared"
    /\ UNCHANGED <<text, max_words, chunks, chunkerVars, env, now, preprocessed_text, i,
                   chunk_start_time, cumulative_time, all_audio_bytes, temporary_timings,
                   perfect_timings, final_word_timings, active_sessions, sse_sent,
                   progress_session_id, api_calls, last_error, mfa_calls, align_outcome,
                   result, auxVars>>

NextText == Preprocess \/ PrepareTextForMfa

SpecText == InitText /\ [][NextText]_vars

(* --------- the estimator and the offset adjustment as a state machine --------- *)
EstimatorAlphabet == {"ni", "hao", "douhao", "space"}
\* what the API reports as audio_length for the text, in ms
EndTimes == {250, 400, 1000}
\* cumulative_time when a chunk's timings are adjusted
Offsets == {0, 150}

InitEstimator ==
    /\ text \in SeqsUpTo(EstimatorAlphabet, MaxTextLen - 1)
    /\ max_words = 1
    /\ words = <<>>
    /\ current_start = 0
    /\ chunks = <<>>
    /\ pc = "estimate"
    /\ env \in [probe : {"mp3_ok"}, latency : {0}, audio_length : EndTimes,
                reports_length : BOOLEAN]
    /\ now = 0
    /\ preprocessed_text = <<>>
    /\ i = 0
    /\ chunk_start_time = 0
    /\ cumulative_time \in Offsets
    /\ all_audio_bytes = <<>>
    /\ temporary_timings = <<>>
    /\ perfect_timings = <<>>
    /\ final_word_timings = <<>>
    /\ active_sessions = <<>>
    /\ sse_sent = <<>>
    /\ progress_session_id = "None"
    /\ api_calls = <<>>
    /\ last_error = "None"
    /\ mfa_calls = <<>>
    /\ align_outcome = "None"
    /\ result = NoResult
    /\ mfa_text = <<>>
    /\ AuxIdle

estimatorFrame ==
    <<text, max_words, chunks, chunkerVars, env, now, preprocessed_text, i, chunk_start_time,
      cumulative_time, all_audio_bytes, final_word_timings, active_sessions, sse_sent,
      progress_session_id, api_calls, last_error, mfa_calls, align_outcome, result, mfa_text,
      opencc, converted, reconverted, filtered, validation_result, loopVars>>

\* line 375: estimated_timings = self._estimate_word_timings(chunk, timings)
EstimateWordTimings ==
    /\ pc = "estimate"
    /\ estimated' = _estimate_word_timings(text,
                        SentenceTimings(text, IF env.reports_length THEN env.audio_length ELSE 0))
    /\ pc' = "estimated"
    /\ UNCHANGED <<estimatorFrame, temporary_timings, perfect_timings, restored_timings>>

\* align_chinese_audio line 198: the list parsed from the aligner's TextGrid
AlignWords ==
    /\ pc = "estimate"
    /\ perfect_timings' = _parse_mfa_output(TextGrid(_prepare_text_for_mfa(text), "words"),
                                            <<>>, FALSE)
    /\ pc' = "aligned"
    /\ UNCHANGED <<estimatorFrame, temporary_timings, estimated, restored_timings>>

\* line 377: _adjust_timing_offsets(estimated_timings, cumulative_time)
AdjustTimingOffsets ==
    /\ pc \in {"estimated", "aligned"}
    /\ temporary_timings' = _adjust_timing_offsets(
                                IF pc = "estimated" THEN estimated ELSE perfect_timings,
                                cumulative_time)
    /\ pc' = IF pc = "estimated" THEN "adjusted_estimate" ELSE "adjusted_alignment"
    /\ UNCHANGED <<estimatorFrame, estimated, perfect_timings, restored_timings>>

\* _adjust_timing_offsets applied to its own output with the opposite offset
AdjustBack ==
    /\ pc \in {"adjusted_estimate", "adjusted_alignment"}
    /\ restored_timings' = _adjust_timing_offsets(temporary_timings, 0 - cumulative_time)
    /\ pc' = IF pc = "adjusted_estimate" THEN "restored_estimate" ELSE "restored_alignment"
    /\ UNCHANGED <<estimatorFrame, estimated, perfect_timings, temporary_timings>>

NextEstimator == EstimateWordTimings \/ AlignWords \/ AdjustTimingOffsets \/ AdjustBack

SpecEstimator == InitEstimator /\ [][NextEstimator]_vars

(* ------------------ _finalize_timings as a state machine ------------------ *)
\* words a timing list can carry: empty, blank, punctuation, brackets, Latin,
\* Simplified and Traditional ideographs, with and without other characters
WordSamples ==
    {<<>>, <<"space">>, <<"douhao">>, <<"lbrk">>, <<"douhao", "douhao">>, <<"A">>,
     <<"ni", "hao">>, <<"ni", "space">>, <<"douhao", "ni">>, <<"guoT">>, <<"cha">>,
     <<"xianT", "zhu">>, <<"xianT", "zhu", "ni">>}

TimingLists ==
    UNION {[1..n -> WordSamples] : n \in 0..MaxTimings}

\* the entry for the k-th word of a list, half a second a word
TimingOf(ws) ==
    [k \in 1..Len(ws) |-> [word |-> ws[k], start_time |-> (k - 1) * 500, end_time |-> k * 500]]

InitFinalize ==
    /\ text = <<>>
    /\ max_words = 1
    /\ words = <<>>
    /\ current_start = 0
    /\ chunks = <<>>
    /\ pc = "finalize"
    /\ env = [probe |-> "mp3_ok", latency |-> 0, audio_length |-> 0, reports_length |-> TRUE]
    /\ now = 0
    /\ preprocessed_text = <<>>
    /\ i = 0
    /\ chunk_start_time = 0
    /\ cumulative_time = 0
    /\ all_audio_bytes = <<>>
    /\ temporary_timings = <<>>
    /\ perfect_timings = <<>>
    /\ \E ws \in TimingLists : final_word_timings = TimingOf(ws)
    /\ active_sessions = <<>>
    /\ sse_sent = <<>>
    /\ progress_session_id = "None"
    /\ api_calls = <<>>
    /\ last_error = "None"
    /\ mfa_calls = <<>>
    /\ align_outcome = "None"
    /\ result = NoResult
    /\ mfa_text = <<>>
    /\ estimated = <<>>
    /\ restored_timings = <<>>
    /\ opencc \in BOOLEAN
    /\ converted = <<>>
    /\ reconverted = <<>>
    /\ filtered = <<>>
    /\ validation_result = NoValidation
    /\ LoopIdle

finalizeFrame ==
    <<text, max_words, chunks, chunkerVars, jobVars, estimated, restored_timings, opencc,
      loopVars>>

\* line 212: converted = self._convert_traditional_to_simplified(word_timings)
ConvertTimings ==
    /\ pc = "finalize"
    /\ converted' = convert_word_timings(final_word_timings, opencc)
    /\ pc' = "converted"
    /\ UNCHANGED <<finalizeFrame, reconverted, filtered, validation_result>>

\* convert_word_timings applied to its own output
ConvertAgain ==
    /\ pc = "converted"
    /\ reconverted' = convert_word_timings(converted, opencc)
    /\ pc' = "reconverted"
    /\ UNCHANGED <<finalizeFrame, converted, filtered, validation_result>>

\* line 213: filtered = self._filter_punctuation_timings(converted)
FilterTimings ==
    /\ pc = "converted"
    /\ filtered' = _filter_punctuation_timings(converted)
    /\ pc' = "filtered"
    /\ UNCHANGED <<finalizeFrame, converted, reconverted, validation_result>>

\* line 218: validation_result = converter.validate_simplified_chinese(filtered)
ValidateTimings ==
    /\ pc = "filtered"
    /\ validation_result' = validate_simplified_chinese(filtered)
    /\ pc' = "validated"
    /\ UNCHANGED <<finalizeFrame, converted, reconverted, filtered>>

NextFinalize == ConvertTimings \/ ConvertAgain \/ FilterTimings \/ ValidateTimings

SpecFinalize == InitFinalize /\ [][NextFinalize]_vars

(* ------------- concurrent jobs on one event loop and one engine -------------- *)
\* Two requests handled by the same event loop (main.py:687) with the same
\* engine instance (tts_factory.py:43-47) and the global progress manager.
\* A coroutine keeps the loop's thread from the moment the loop resumes it to
\* its next asyncio.sleep: requests.post (line 150) and subprocess.run
\* (mfa_aligner.py:385) do not give the thread back.
Jobs == {"j1", "j2"}
\* len(chunks) of a job: at most 3 chunks take the burst delay, more the spaced one
ChunkCounts == {2, 4}
\* _cleanup_session_later(delay=30)
CleanupDelay == 30 * TicksPerSecond
\* cleanup_loop: asyncio.sleep(300), cleanup_old_sessions(max_age_minutes=10)
SweepPeriod == 300 * TicksPerSecond
MaxAge == 10 * 60 * TicksPerSecond
\* how long the alignment subprocess runs
MfaDuration == 5 * TicksPerSecond
\* the clock stops being advanced after this time
Horizon == 1000 * TicksPerSecond

\* what a synthesis call can end in: audio, or one of the exceptions of lines 153-164
CallOutcomes == {"ok", "http_429", "http_500"}

NewTask == [pc |-> "new", total_chunks |-> 0, i |-> 0, chunk_start_time |-> 0, wake |-> 0]

InitLoop ==
    /\ text = <<>>
    /\ max_words = 1
    /\ words = <<>>
    /\ current_start = 0
    /\ chunks = <<>>
    /\ pc = "loop"
    /\ env = [probe |-> "mp3_ok", latency |-> TicksPerSecond \div 5, audio_length |-> 0,
              reports_length |-> TRUE]
    /\ now = 0
    /\ preprocessed_text = <<>>
    /\ i = 0
    /\ chunk_start_time = 0
    /\ cumulative_time = 0
    /\ all_audio_bytes = <<>>
    /\ temporary_timings = <<>>
    /\ perfect_timings = <<>>
    /\ final_word_timings = <<>>
    /\ active_sessions = <<>>
    /\ sse_sent = <<>>
    /\ progress_session_id = "None"
    /\ api_calls = <<>>
    /\ last_error = "None"
    /\ mfa_calls = <<>>
    /\ align_outcome = "None"
    /\ result = NoResult
    /\ mfa_text = <<>>
    /\ estimated = <<>>
    /\ restored_timings = <<>>
    /\ opencc = FALSE
    /\ converted = <<>>
    /\ reconverted = <<>>
    /\ filtered = <<>>
    /\ validation_result = NoValidation
    /\ tasks = [j \in Jobs |-> NewTask]
    /\ running = "None"
    /\ timers = {}
    /\ cleanup_task = NoCleanupTask
    /\ sse_clients = {}

loopFrame ==
    <<text, max_words, chunks, pc, chunkerVars, env, preprocessed_text, i, chunk_start_time,
      cumulative_time, all_audio_bytes, temporary_timings, perfect_timings,
      final_word_timings, sse_sent, progress_session_id, last_error, mfa_calls,
      align_outcome, result, mfa_text, estimated, restored_timings, opencc, converted, reconverted, filtered,
      validation_result>>

\* the loop can resume the coroutine of job j
Runnable(j) ==
    \/ tasks[j].pc = "ready"
    \/ tasks[j].pc \in {"sleeping", "cooldown"} /\ tasks[j].wake <= now

\* del self.active_sessions[session_id] for the ids in gone
DropSessions(sessions, gone) == [s \in DOMAIN sessions \ gone |-> sessions[s]]

\* lines 371-374: chunk_start_time = time.time(), then the call
IssueCall(j) ==
    /\ tasks' = [tasks EXCEPT ![j] = [@ EXCEPT !.pc = "in_http", !.chunk_start_time = now]]
    /\ api_calls' = Append(api_calls, [job |-> j, chunk |-> tasks[j].i, time |-> now,
                                       retry |-> FALSE])

\* lines 375-378 and the loop's end: the next chunk, or lines 391-394
ChunkSucceeded(j, t) ==
    IF tasks[j].i + 1 = tasks[j].total_chunks
    THEN /\ tasks' = [tasks EXCEPT ![j] = [@ EXCEPT !.pc = "in_mfa", !.i = @ + 1]]
         /\ active_sessions' = update_progress(active_sessions, j, tasks[j].total_chunks,
                                               "Running final alignment...", t)
    ELSE /\ tasks' = [tasks EXCEPT ![j] = [@ EXCEPT !.pc = "rate_limit", !.i = @ + 1]]
         /\ UNCHANGED active_sessions

\* main.py:687: a request for a text of several chunks reaches the server
Arrive(j) ==
    /\ tasks[j].pc = "new"
    /\ \E n \in ChunkCounts :
          tasks' = [tasks EXCEPT ![j] = [@ EXCEPT !.pc = "ready", !.total_chunks = n]]
    /\ UNCHANGED <<loopFrame, now, active_sessions, api_calls, running, timers, cleanup_task,
                   sse_clients>>

\* generate_speech lines 127-129 and _generate_chunked_speech line 364
Start(j) ==
    /\ running = "None"
    /\ tasks[j].pc = "ready"
    /\ active_sessions' = create_session(active_sessions, j, tasks[j].total_chunks, now)
    /\ sse_clients' = sse_clients \cup {j}
    /\ cleanup_task' = IF cleanup_task.started THEN cleanup_task
                       ELSE [started |-> TRUE, wake |-> now + SweepPeriod]
    /\ tasks' = [tasks EXCEPT ![j] = [@ EXCEPT !.pc = "rate_limit", !.i = 0,
                                                !.chunk_start_time = now]]
    /\ running' = j
    /\ UNCHANGED <<loopFrame, now, api_calls, timers>>

\* lines 369-371: the progress update, the delay and, with no delay, the call
HandleRateLimit(j) ==
    /\ running = j
    /\ tasks[j].pc = "rate_limit"
    /\ active_sessions' = update_progress(active_sessions, j, tasks[j].i + 1,
                                          "Processing chunk", now)
    /\ LET delay == _handle_rate_limit(tasks[j].i, tasks[j].total_chunks,
                                       tasks[j].chunk_start_time, now)
       IN  IF delay > 0
           THEN /\ tasks' = [tasks EXCEPT ![j] = [@ EXCEPT !.pc = "sleeping",
                                                           !.wake = now + delay]]
                /\ running' = "None"
                /\ UNCHANGED api_calls
           ELSE /\ IssueCall(j)
                /\ UNCHANGED running
    /\ UNCHANGED <<loopFrame, now, timers, cleanup_task, sse_clients>>

\* line 248: asyncio.sleep(delay) is over, lines 371-374 follow
WakeRateLimit(j) ==
    /\ running = "None"
    /\ tasks[j].pc = "sleeping"
    /\ tasks[j].wake <= now
    /\ IssueCall(j)
    /\ running' = j
    /\ UNCHANGED <<loopFrame, now, active_sessions, timers, cleanup_task, sse_clients>>

\* lines 150 and 374-389: requests.post returns, the thread was held meanwhile
HttpReturn(j) ==
    /\ running = j
    /\ tasks[j].pc = "in_http"
    /\ now' = now + env.latency
    /\ \E outcome \in CallOutcomes :
          IF outcome = "ok"
          THEN ChunkSucceeded(j, now') /\ UNCHANGED running
          ELSE IF Has429(outcome)
          THEN /\ tasks' = [tasks EXCEPT ![j] = [@ EXCEPT !.pc = "cooldown",
                                                          !.wake = now' + Cooldown]]
               /\ running' = "None"
               /\ UNCHANGED active_sessions
          ELSE /\ active_sessions' = set_error(active_sessions, j, outcome, now')
               /\ tasks' = [tasks EXCEPT ![j] = [@ EXCEPT !.pc = "raised"]]
               /\ running' = "None"
    /\ UNCHANGED <<loopFrame, api_calls, timers, cleanup_task, sse_clients>>

\* line 381: asyncio.sleep(20) is over, line 382 calls again
WakeCooldown(j) ==
    /\ running = "None"
    /\ tasks[j].pc = "cooldown"
    /\ tasks[j].wake <= now
    /\ tasks' = [tasks EXCEPT ![j] = [@ EXCEPT !.pc = "in_retry"]]
    /\ api_calls' = Append(api_calls, [job |-> j, chunk |-> tasks[j].i, time |-> now,
                                       retry |-> TRUE])
    /\ running' = j
    /\ UNCHANGED <<loopFrame, now, active_sessions, timers, cleanup_task, sse_clients>>

\* lines 382-386: the second call returns; its exception leaves the handler as it is
RetryReturn(j) ==
    /\ running = j
    /\ tasks[j].pc = "in_retry"
    /\ now' = now + env.latency
    /\ \E outcome \in CallOutcomes :
          IF outcome = "ok"
          THEN ChunkSucceeded(j, now') /\ UNCHANGED running
          ELSE /\ tasks' = [tasks EXCEPT ![j] = [@ EXCEPT !.pc = "raised"]]
               /\ running' = "None"
               /\ UNCHANGED active_sessions
    /\ UNCHANGED <<loopFrame, api_calls, timers, cleanup_task, sse_clients>>

\* line 394 with mfa_aligner.py:385, then lines 396-401: subprocess.run returns,
\* the session is completed and its removal is scheduled (progress_manager 107-121)
MfaReturn(j) ==
    /\ running = j
    /\ tasks[j].pc = "in_mfa"
    /\ now' = now + MfaDuration
    /\ active_sessions' = complete_session(active_sessions, j, now')
    /\ timers' = timers \cup {[session |-> j, wake |-> now' + CleanupDelay]}
    /\ tasks' = [tasks EXCEPT ![j] = [@ EXCEPT !.pc = "done"]]
    /\ running' = "None"
    /\ UNCHANGED <<loopFrame, api_calls, cleanup_task, sse_clients>>

\* progress_manager 181-190: _cleanup_session_later after its sleep
CleanupSessionLater ==
    /\ running = "None"
    /\ \E t \in timers :
          /\ t.wake <= now
          /\ active_sessions' = DropSessions(active_sessions, {t.session})
          /\ sse_clients' = sse_clients \ {t.session}
          /\ timers' = timers \ {t}
    /\ UNCHANGED <<loopFrame, now, api_calls, tasks, running, cleanup_task>>

\* progress_manager 229-233 and 207-221: one round of cleanup_loop
CleanupLoop ==
    /\ running = "None"
    /\ cleanup_task.started
    /\ cleanup_task.wake <= now
    /\ LET expired_sessions == {s \in DOMAIN active_sessions :
                                   now - active_sessions[s].last_update > MaxAge}
       IN  /\ active_sessions' = DropSessions(active_sessions, expired_sessions)
           /\ sse_clients' = sse_clients \ expired_sessions
    /\ cleanup_task' = [cleanup_task EXCEPT !.wake = now + SweepPeriod]
    /\ UNCHANGED <<loopFrame, now, api_calls, tasks, running, timers>>

\* the times at which a sleeping coroutine wants to be resumed
WakeTimes ==
    {tasks[j].wake : j \in {k \in Jobs : tasks[k].pc \in {"sleeping", "cooldown"}}}
    \cup {t.wake : t \in timers}
    \cup (IF cleanup_task.started THEN {cleanup_task.wake} ELSE {})

\* the loop has nothing to resume and waits for the earliest sleeper
AdvanceTime ==
    /\ running = "None"
    /\ \A j \in Jobs : ~Runnable(j)
    /\ WakeTimes # {}
    /\ \A w \in WakeTimes : w > now
    /\ \E w \in WakeTimes :
          /\ \A v \in WakeTimes : w <= v
          /\ w <= Horizon
          /\ now' = w
    /\ UNCHANGED <<loopFrame, active_sessions, api_calls, tasks, running, timers,
                   cleanup_task, sse_clients>>

NextLoop ==
    \/ \E j \in Jobs : Arrive(j)
    \/ \E j \in Jobs : Start(j)
    \/ \E j \in Jobs : HandleRateLimit(j)
    \/ \E j \in Jobs : WakeRateLimit(j)
    \/ \E j \in Jobs : HttpReturn(j)
    \/ \E j \in Jobs : WakeCooldown(j)
    \/ \E j \in Jobs : RetryReturn(j)
    \/ \E j \in Jobs : MfaReturn(j)
    \/ CleanupSessionLater
    \/ CleanupLoop
    \/ AdvanceTime

SpecLoop == InitLoop /\ [][NextLoop]_vars

(* ------------------------------ claims -------------------------------- *)
\* C1: the ordered concatenation of the chunks returned by
\* _split_text_into_chunks(t, n) equals t exactly, whitespace between words
\* included.
C1_ChunksLossless == pc = "split_done" => Join(chunks) = text

MultiChunk == Len(chunks) > 1
Session == active_sessions[progress_session_id]

\* C2: whenever a multi-chunk job aborts, its progress session is left with
\* status 'error' and the caller receives neither audio nor timings.
C2_AbortMarksSessionError ==
    (pc = "raised" /\ progress_session_id # "None") =>
        /\ Session.status = "error"
        /\ result.audio = <<>>
        /\ result.timings = <<>>

CallsOfChunk(c) == {k \in DOMAIN api_calls : api_calls[k].chunk = c}

\* C3: in a multi-chunk job each chunk gets at most two synthesis calls; a
\* second call is issued only after a first call that raised a 429, and no
\* earlier than the 20 s cooldown after it; a failed second call aborts the
\* job; so n chunks issue at most 2n calls.
C3_RetryOnceAfterCooldown ==
    MultiChunk =>
        /\ \A c \in 0..(Len(chunks) - 1) : Cardinality(CallsOfChunk(c)) <= 2
        /\ \A k \in DOMAIN api_calls :
             IF api_calls[k].retry
             THEN /\ k > 1
                  /\ api_calls[k - 1].chunk = api_calls[k].chunk
                  /\ ~api_calls[k - 1].retry
                  /\ Has429(api_calls[k - 1].outcome)
                  /\ api_calls[k].at >= api_calls[k - 1].at + Cooldown
                  /\ (api_calls[k].outcome # "ok" => pc = "raised")
             ELSE \A j \in 1..(k - 1) : api_calls[j].chunk < api_calls[k].chunk
        /\ Len(api_calls) <= 2 * Len(chunks)

\* a job went through a 429, retried once and still delivered
C3_Witness ==
    /\ MultiChunk
    /\ pc = "returned"
    /\ \E k \in DOMAIN api_calls : api_calls[k].retry

\* C4: a 429 answered to the synthesis call of a single-chunk job is retried
\* once after the cooldown before the job is failed.
C4_SingleChunkRetries429 ==
    (Len(chunks) = 1 /\ pc = "raised" /\ api_calls # <<>> /\ Has429(api_calls[1].outcome)) =>
        /\ Len(api_calls) = 2
        /\ api_calls[2].retry
        /\ api_calls[2].at >= api_calls[1].at + Cooldown

\* C5: when the aligner is unavailable or the alignment fails, on either
\* path the job goes on to its result without raising, and every entry of
\* the finalized output is an estimate (source jieba_estimation, not MFA).
C5_AlignFailureFallsBack ==
    align_outcome \in AlignFailures =>
        /\ pc \in {"single_finalize", "select", "returned"}
        /\ result.status # "raised"
        /\ pc = "returned" =>
             \A k \in DOMAIN result.timings :
                 /\ result.timings[k].source = "jieba_estimation"
                 /\ ~result.timings[k].is_mfa

\* a multi-chunk job whose alignment timed out delivered estimated timings
C5_Witness ==
    /\ MultiChunk
    /\ align_outcome = "mfa_timeout"
    /\ pc = "returned"
    /\ result.timings # <<>>

HasMfaEntry(timings) == \E k \in DOMAIN timings : timings[k].is_mfa

\* C6: in a multi-chunk job the list handed to finalize is the alignment
\* result, whole and alone, when that result has an alignment-sourced entry,
\* and the temporary estimates otherwise; the finalized output never mixes
\* the two kinds.
C6_AlignmentReplacesEstimates ==
    (MultiChunk /\ pc = "returned") =>
        /\ HasMfaEntry(perfect_timings) =>
             /\ final_word_timings = perfect_timings
             /\ \A k \in DOMAIN result.timings :
                    result.timings[k].is_mfa /\ result.timings[k].source # "jieba_estimation"
        /\ ~HasMfaEntry(perfect_timings) => final_word_timings = temporary_timings
        /\ \/ \A k \in DOMAIN result.timings : result.timings[k].is_mfa
           \/ \A k \in DOMAIN result.timings : ~result.timings[k].is_mfa

\* a 3-chunk job whose combined alignment pass succeeded
C6_Witness ==
    /\ Len(chunks) = 3
    /\ pc = "returned"
    /\ align_outcome = "aligned"
    /\ temporary_timings # <<>>
    /\ result.timings # <<>>
    /\ \A k \in DOMAIN result.timings : result.timings[k].is_mfa

\* C7: in a job of more than 3 chunks every synthesis call after the first,
\* retries included, is issued no earlier than 60/max_requests_per_minute
\* seconds after the previous call.
C7_CallsSpacedByRateLimit ==
    Len(chunks) > 3 =>
        \A k \in 2..Len(api_calls) : api_calls[k].at - api_calls[k - 1].at >= RequiredDelay

PunctuationChars == {w[1] : w \in all_punctuation}

\* C8: every timing list a successful generate_speech returns is the output
\* of _finalize_timings, and holds no entry whose word is empty, all
\* whitespace, all punctuation, or without a character in U+4E00..U+9FFF.
C8_ReturnedTimingsFinalized ==
    pc = "returned" =>
        /\ \E cc \in BOOLEAN : result.timings = _finalize_timings(final_word_timings, cc)
        /\ \A k \in DOMAIN result.timings :
             LET w == result.timings[k].word
             IN  /\ w # <<>>
                 /\ \E c \in DOMAIN w : w[c] \notin Whitespace
                 /\ \E c \in DOMAIN w : w[c] \notin PunctuationChars
                 /\ \E c \in DOMAIN w : IsCJK(w[c])

\* a job returned timings from which finalize had removed entries
C8_Witness ==
    /\ pc = "returned"
    /\ result.timings # <<>>
    /\ Len(result.timings) < Len(final_word_timings)

\* C9: in every returned timing list each entry ends no earlier than it
\* starts, start times do not decrease and no entry starts before the
\* previous one ends, the multi-chunk fallback output included.
C9_TimingsOrderedNoOverlap ==
    pc = "returned" =>
        \A k \in DOMAIN result.timings :
            /\ result.timings[k].end_time >= result.timings[k].start_time
            /\ k > 1 => /\ result.timings[k].start_time >= result.timings[k - 1].start_time
                        /\ result.timings[k].start_time >= result.timings[k - 1].end_time

\* C10: the transcript handed to the aligner has the length of the text
\* shown to the user and the same character at every position.
C10_AlignerTextKeepsPositions == pc = "prepared" => mfa_text = preprocessed_text

SucceededChunks == {api_calls[k].chunk : k \in {m \in DOMAIN api_calls : api_calls[m].outcome = "ok"}}

C12_ChunksInOrder ==
    MultiChunk =>
        /\ \A k \in DOMAIN api_calls :
             /\ k = 1 => api_calls[k].chunk = 0 /\ ~api_calls[k].retry
             /\ k > 1 =>
                  /\ api_calls[k].at >= api_calls[k - 1].at + env.latency
                  /\ IF api_calls[k].retry
                     THEN api_calls[k].chunk = api_calls[k - 1].chunk
                     ELSE /\ api_calls[k].chunk = api_calls[k - 1].chunk + 1
                          /\ api_calls[k - 1].outcome = "ok"
        /\ \A k \in DOMAIN all_audio_bytes :
               all_audio_bytes[k] = <<[chunk |-> k - 1, length |-> env.audio_length]>>
        /\ pc = "returned" =>
             /\ Len(result.audio) = Len(chunks)
             /\ \A k \in DOMAIN result.audio : result.audio[k].chunk = k - 1

\* a 3-chunk job delivered its audio after the middle chunk needed a retry
C12_Witness ==
    /\ Len(chunks) = 3
    /\ pc = "returned"
    /\ \E k \in DOMAIN api_calls : api_calls[k].retry /\ api_calls[k].chunk = 1
    /\ Len(result.audio) = 3

\* C16: adjusting a timing list by an offset k and then by -k gives the
\* list back, entry by entry and field by field, for the aligner's lists
\* and for the estimator's lists, whose entries carry no 'offset' field.
C16_AdjustRoundTrip ==
    /\ pc = "restored_estimate" => restored_timings = estimated
    /\ pc = "restored_alignment" => restored_timings = perfect_timings

RECURSIVE SumDuration(_)
SumDuration(timings) ==
    IF timings = <<>> THEN 0 ELSE Head(timings).duration + SumDuration(Tail(timings))

Abs(x) == IF x >= 0 THEN x ELSE 0 - x

\* C17: for a coarse timing with a positive end time (taken here large
\* enough for every word to get the floor), the estimated durations are each
\* at least 100 ms and add up to the end time, within one ms a word.
C17_EstimateSumAndFloor ==
    (/\ pc # "estimate"
     /\ estimated # <<>>
     /\ env.reports_length
     /\ env.audio_length >= 100 * Len(estimated)) =>
        /\ \A k \in DOMAIN estimated : estimated[k].duration >= 100
        /\ Abs(SumDuration(estimated) - env.audio_length) <= Len(estimated)

\* C18: convert_word is idempotent, with and without OpenCC: converting a
\* converted word changes nothing.
C18_ConvertIdempotent == pc = "reconverted" => reconverted = converted

\* C19: a list whose words hold only characters valid in Simplified Chinese
\* is reported valid, and no character the manual table maps to itself is
\* reported as exclusively Traditional.
C19_ValidateFlagsOnlyTraditional ==
    pc = "validated" =>
        /\ (\A k \in DOMAIN filtered : WordChars(filtered[k].word) \cap HanTraditional = {})
               => validation_result.is_valid
        /\ \A c \in validation_result.traditional_chars_found :
               ~(c \in DOMAIN manual_char_mapping /\ manual_char_mapping[c] = c)

HasIdeograph(t) == \E c \in WordChars(t.word) : IsCJK(c)

\* C20: the filter keeps exactly the entries whose word has a character in
\* U+4E00..U+9FFF, unmodified and in their order; e.g. nihao(0,500),
\* comma(500,550), world(550,1000) becomes nihao(0,500), world(550,1000).
C20_FilterKeepsIdeographicWords ==
    /\ pc \in {"filtered", "validated"} => filtered = SelectSeq(converted, HasIdeograph)
    /\ _filter_punctuation_timings(
           <<[word |-> <<"ni", "hao">>, start_time |-> 0, end_time |-> 500],
             [word |-> <<"douhao">>, start_time |-> 500, end_time |-> 550],
             [word |-> <<"wu", "shi">>, start_time |-> 550, end_time |-> 1000]>>)
         = <<[word |-> <<"ni", "hao">>, start_time |-> 0, end_time |-> 500],
             [word |-> <<"wu", "shi">>, start_time |-> 550, end_time |-> 1000]>>

\* a punctuation entry was dropped and a word with a trailing blank was kept
C20_Witness ==
    /\ pc = "filtered"
    /\ Len(converted) = 2
    /\ converted[1].word = <<"douhao">>
    /\ filtered = <<converted[2]>>
    /\ converted[2].word = <<"ni", "space">>

\* job j is inside requests.post or inside subprocess.run
Waiting(j) == tasks[j].pc \in {"in_http", "in_retry", "in_mfa"}

\* C13: while a job waits on the synthesis HTTP call or on the alignment
\* subprocess it has given the event loop's thread back, so that a concurrent
\* job the loop could resume is not held up by that wait.
C13_WaitingJobYields ==
    \A a \in Jobs : \A b \in Jobs \ {a} :
        (Waiting(a) /\ Runnable(b)) => running # a

\* C14: the baseline a job's delay is computed from is shared by the jobs of
\* the engine: when a job computes the spaced delay before its next call, its
\* baseline is not older than any synthesis call another job has issued.
C14_BaselineSharedByJobs ==
    \A j \in Jobs :
        (tasks[j].pc = "rate_limit" /\ tasks[j].i > 0 /\ tasks[j].total_chunks > 3)
        => \A k \in DOMAIN api_calls :
              api_calls[k].job # j => api_calls[k].time <= tasks[j].chunk_start_time

\* C15: every session whose status is 'completed' or 'error' has its removal
\* scheduled a fixed delay after that transition.
C15_FinishedSessionsCollected ==
    \A s \in DOMAIN active_sessions :
        active_sessions[s].status \in {"completed", "error"}
        => \E t \in timers :
              t.session = s /\ t.wake = active_sessions[s].last_update + CleanupDelay

\* C21: every chunk the splitter returns is a non-empty string, whatever the
\* text (the empty and the blank text included) and the chunk size.
C21_ChunksNonEmpty ==
    pc = "split_done" => \A k \in 1..Len(chunks) : chunks[k] # <<>>

\* C22: a text of 130 words split with max_words = 120 gives exactly two
\* chunks, both non-empty, wherever punctuation stands; a text of at most
\* max_words words gives exactly one chunk.
C22_ScenarioTwoChunks ==
    pc = "split_done" =>
        /\ (Len(words) = ScenarioWords /\ max_words = ScenarioMaxWords)
           => (Len(chunks) = 2 /\ chunks[1] # <<>> /\ chunks[2] # <<>>)
        /\ Len(words) <= max_words => Len(chunks) = 1

\* a 130-word text was split at a punctuation mark, not at the 120th word
C22_Witness ==
    /\ pc = "split_done"
    /\ Len(words) = ScenarioWords
    /\ max_words = ScenarioMaxWords
    /\ Len(chunks) = 2
    /\ Len(chunks[1]) \notin {0, ScenarioMaxWords}

\* the indices of the search window of a break point with target T in ws
BreakWindow(ws, T) ==
    LET r == Max(5, (T * 2) \div 10)
    IN  {x \in 0..(Len(ws) - 1) : x >= Max(T - r, 1) /\ x < Min(T + r, Len(ws))}

\* bp is a token of priority pr in the window, and none of them is nearer to T
NearestOfPriority(ws, T, bp, pr) ==
    /\ bp \in BreakWindow(ws, T)
    /\ BreakPriority(ws[bp + 1]) = pr
    /\ \A x \in BreakWindow(ws, T) :
          BreakPriority(ws[x + 1]) = pr => Abs(bp - T) <= Abs(x - T)

\* C24: the break point lies in the search window or is the target T; it is a
\* sentence end nearest to T if the window has one, else a clause break nearest
\* to T if the window has one, else T. So every chunk but the last has between
\* 1 and T + r - 1 words, and the last at most T (here every word is one
\* character long).
C24_BreakPointInWindowByPriority ==
    /\ (pc = "split_loop" /\ current_start + max_words < Len(words))
       => LET ws == Slice(words, current_start, Len(words))
              T == Min(max_words, Len(words) - current_start)
              r == Max(5, (T * 2) \div 10)
              bp == _find_best_break_point(ws, T)
              has(pr) == \E x \in BreakWindow(ws, T) : BreakPriority(ws[x + 1]) = pr
          IN  /\ bp \in BreakWindow(ws, T) \cup {T}
              /\ IF has(2) THEN NearestOfPriority(ws, T, bp, 2)
                 ELSE IF has(1) THEN NearestOfPriority(ws, T, bp, 1)
                 ELSE bp = T
              /\ 1 <= bp /\ bp <= T + r - 1
    /\ pc = "split_done" => Len(chunks[Len(chunks)]) <= max_words

\* C25: the splitter ends for every text and chunk size: every pass through
\* the loop that does not leave it consumes at least one word.
C25_EveryPassConsumesAWord ==
    [][(pc = "split_loop" /\ pc' = "split_loop") => current_start' > current_start]_vars

\* the measured durations of the first k audios, added up
RECURSIVE MeasuredBefore(_)
MeasuredBefore(k) ==
    IF k = 0 THEN 0
    ELSE MeasuredBefore(k - 1) + _get_actual_audio_duration(all_audio_bytes[k], env.probe)

\* the estimate of chunk k as the estimator returns it, before any shift
ChunkEstimate(k) ==
    _estimate_word_timings(chunks[k],
        SentenceTimings(chunks[k], IF env.reports_length THEN env.audio_length ELSE 0))

\* for every temporary timing of the chunks 1..k, in order: the unshifted
\* entry and the sum of the measured durations of the chunks before its chunk
RECURSIVE ExpectedShifts(_)
ExpectedShifts(k) ==
    IF k = 0 THEN <<>>
    ELSE ExpectedShifts(k - 1) \o
         [j \in 1..Len(ChunkEstimate(k)) |->
             [entry |-> ChunkEstimate(k)[j], shift |-> MeasuredBefore(k - 1)]]

\* C23: in a multi-chunk job the temporary timings of chunk i are those of the
\* chunk's estimate moved by the sum of the measured durations of the audio of
\* the chunks before it (0 for the first), after a first call and after a retry.
C23_ShiftBySumOfMeasuredDurations ==
    (MultiChunk /\ pc \in {"chunk_begin", "chunk_call", "cooldown", "combine", "final_mfa",
                             "select", "returned", "raised"})
    => LET expected == ExpectedShifts(Len(all_audio_bytes))
       IN  /\ Len(temporary_timings) = Len(expected)
           /\ \A j \in 1..Len(expected) :
                 /\ temporary_timings[j].word = expected[j].entry.word
                 /\ temporary_timings[j].start_time =
                        expected[j].entry.start_time + expected[j].shift
                 /\ temporary_timings[j].end_time =
                        expected[j].entry.end_time + expected[j].shift
           /\ cumulative_time = MeasuredBefore(Len(all_audio_bytes))

\* three chunks are in, one of them after a retry, and the last is shifted
C23_Witness ==
    /\ MultiChunk
    /\ pc = "combine"
    /\ Len(all_audio_bytes) >= 3
    /\ \E k \in DOMAIN api_calls :
          api_calls[k].retry /\ api_calls[k].outcome = "ok" /\ api_calls[k].chunk >= 1
    /\ temporary_timings # <<>>
    /\ temporary_timings[Len(temporary_timings)].start_time
          >= MeasuredBefore(Len(all_audio_bytes) - 1)
    /\ MeasuredBefore(Len(all_audio_bytes) - 1) > 0

\* main.py:598-600: the percentage the /minimax-progress endpoint shows for a session
ShownPercentage(session) ==
    IF session.total_chunks > 0
    THEN (session.current_chunk * 100) \div session.total_chunks
    ELSE 0

\* C26: a session that is still active (starting, processing or combining)
\* shows 100% only when its job has finished all synthesis and alignment.
C26_HundredPercentMeansFinished ==
    \A s \in DOMAIN active_sessions :
        (/\ active_sessions[s].status \in {"starting", "processing", "combining"}
         /\ ShownPercentage(active_sessions[s]) >= 100)
        => pc = "returned"

\* the first k messages are the chunk updates 1..k, in order
ChunkUpdatesSent(k) ==
    /\ Len(sse_sent) >= k
    /\ \A c \in 1..k : sse_sent[c].current_chunk = c /\ sse_sent[c].status = "processing"

\* C27: a job of n chunks publishes the update of chunk i before chunk i's
\* rate-limit wait and call, for i = 1..n in order, then the announcement of
\* the final alignment before the aligner is invoked, then the completion,
\* after the alignment has ended and the timings are finalized; a job that
\* aborts publishes no completion.
C27_ProgressEventsInOrder ==
    MultiChunk =>
        LET n == Len(chunks) IN
        /\ pc = "chunk_begin" => (Len(sse_sent) = i /\ ChunkUpdatesSent(i))
        /\ pc \in {"chunk_call", "cooldown"}
              => (Len(sse_sent) = i + 1 /\ ChunkUpdatesSent(i + 1))
        /\ pc = "chunk_call" => CallsOfChunk(i) = {}
        /\ pc \in {"combine", "final_mfa", "select", "returned"} => ChunkUpdatesSent(n)
        /\ pc = "combine" => Len(sse_sent) = n
        /\ pc \in {"final_mfa", "select"}
              => /\ Len(sse_sent) = n + 1
                 /\ sse_sent[n + 1].message = "Running final alignment..."
                 /\ sse_sent[n + 1].status = "processing"
        /\ pc = "final_mfa" => (mfa_calls = <<>> /\ align_outcome = "None")
        /\ pc = "returned"
              => /\ Len(sse_sent) = n + 2
                 /\ sse_sent[n + 1].message = "Running final alignment..."
                 /\ sse_sent[n + 2].status = "completed"
                 /\ align_outcome # "None"
                 /\ result.status = "returned"
        /\ \A k \in 1..Len(sse_sent) : sse_sent[k].status = "completed" => pc = "returned"

\* a job of three or more chunks, one of them retried, has published its completion
C27_Witness ==
    /\ MultiChunk
    /\ Len(chunks) >= 3
    /\ pc = "returned"
    /\ \E k \in DOMAIN api_calls : api_calls[k].retry
    /\ sse_sent[Len(sse_sent)].status = "completed"

\* the duration the fallback chain of the claim arrives at: the container
\* probe's, else ffprobe's, else the one of the byte length at 128 kbit/s (an
\* installation without the container probe goes on to ffprobe, whose answer
\* and whose fallback agree here)
ChainDuration(audio, probe) ==
    IF probe \in {"mp3_ok", "ffprobe_ok"} THEN AudioLength(audio)
    ELSE (AudioByteCount(audio) * 1000) \div 16000

\* C28: the measured duration of an audio is the one the fallback chain
\* (container probe, ffprobe, byte length) arrives at, and 100 ms only when
\* that one is below 100 ms.
C28_DurationFallbackChain ==
    (MultiChunk /\ Len(all_audio_bytes) = 1
        /\ pc \in {"chunk_begin", "chunk_call", "cooldown", "combine"})
    => LET value == ChainDuration(all_audio_bytes[1], env.probe)
       IN  cumulative_time = IF value < 100 THEN 100 ELSE value

\* the status changes a session may go through
StatusMoves ==
    {<<"starting", "processing">>, <<"processing", "completed">>, <<"processing", "error">>}

\* C29: a session is created 'starting' and its status only moves starting ->
\* processing -> (completed | error): no write changes the status of a session
\* that is 'completed' or 'error', and neither is reached from the other.
C29_StatusMovesForward ==
    [][\A s \in DOMAIN active_sessions' :
          IF s \in DOMAIN active_sessions
          THEN \/ active_sessions'[s].status = active_sessions[s].status
               \/ <<active_sessions[s].status, active_sessions'[s].status>> \in StatusMoves
          ELSE active_sessions'[s].status = "starting"]_vars

\* a job has completed its session and another state has one in error
C29_Witness ==
    /\ MultiChunk
    /\ Session.status \in {"completed", "error"}
    /\ Len(sse_sent) >= 2
    /\ sse_sent[Len(sse_sent) - 1].status = "processing"

\* an id that no session has
UnknownId == "s0"

\* C30: a session's current_chunk lies in 0..total_chunks and never decreases
\* from one write to the next, its percentage lies in 0..100, and a write to
\* an id that is not in the registry changes nothing.
C30_ProgressWithinBounds ==
    /\ [](\A s \in DOMAIN active_sessions :
            /\ 0 <= active_sessions[s].current_chunk
            /\ active_sessions[s].current_chunk <= active_sessions[s].total_chunks
            /\ 0 <= active_sessions[s].percentage
            /\ active_sessions[s].percentage <= 100)
    /\ [](UnknownId \notin DOMAIN active_sessions
            => /\ update_progress(active_sessions, UnknownId, 1, "Processing chunk", now)
                    = active_sessions
               /\ set_error(active_sessions, UnknownId, "Chunk failed", now) = active_sessions
               /\ complete_session(active_sessions, UnknownId, now) = active_sessions)
    /\ [][\A s \in DOMAIN active_sessions \cap DOMAIN active_sessions' :
            active_sessions'[s].current_chunk >= active_sessions[s].current_chunk]_vars

\* the last chunk of a job of three or more chunks has been announced
C30_Witness ==
    /\ MultiChunk
    /\ Len(chunks) >= 3
    /\ Session.current_chunk = Session.total_chunks
    /\ Session.percentage = 100
    /\ \E k \in 1..Len(sse_sent) : sse_sent[k].percentage \notin {0, 100}

====
